---- MODULE Spec2Model ----
(***************************************************************************)
(* A model of scripts/gulpfiles/build_tasks.js: the chunk list, the        *)
(* wrapper that chunkWrapper synthesizes around each compiled chunk, the   *)
(* manifest getChunkOptions computes, the licence-stripping replacement,   *)
(* the gulp task series, and the execution of a synthesized wrapper by a   *)
(* JavaScript host.                                                        *)
(*                                                                         *)
(* Representation.  A path is a sequence of segments whose last element    *)
(* is the extension: core/blockly.js is <<"core", "blockly", ".js">>.      *)
(* A dotted JavaScript location (Blockly.libraryBlocks) is the sequence    *)
(* of its identifiers.  Generated JavaScript is kept as its syntax tree:   *)
(* a statement is a record, an expression a sequence of identifiers.       *)
(***************************************************************************)
EXTENDS Integers, Sequences, FiniteSets, TLC

VARIABLES
  chunks,      \* the chunk list (build_tasks.js:106-159)
  tree,        \* the .js files present under TSC_OUTPUT_DIR
  manifest,    \* what the last getChunkOptions call returned
  manifestTree,\* the files that were present when it was called
  env,         \* how the host loads the compiled chunks: script, cjs or amd
  heap,        \* the host's objects: heap[o][p] is property p of object o
  exported,    \* per chunk, the object its factory last returned (0: none)
  run,         \* the wrapper's script branch in progress
  log,         \* what the script branch of the last load has done so far
  loads,       \* how many wrappers have been run
  ran,         \* the chunks whose wrapper has been run
  made,        \* per chunk, the namespace objects its factory created
  rootFirst,   \* every run of the root's wrapper so far preceded every child's
  text,        \* the contents of a source file, as a sequence of tokens
  pieces,      \* how many pieces (a comment block or one token) it has
  stripped,    \* what stripApacheLicense's replacement made of it
  phase,       \* "reading" the file, then "replaced"
  buildDir,    \* BUILD_DIR, as ./config sets it
  fs,          \* the paths that exist on disk
  fsBefore,    \* the paths that existed when the current gulp run began
  task,        \* the gulp target being run
  queue,       \* the task functions of its series still to finish
  pc,          \* the statement the current task function is at
  proc,        \* the external process that is running
  events,      \* what the current gulp run has done so far
  outcome,     \* of the gulp run: idle, running, done or failed
  cleanResult, \* of cleanBuildDir's promise: none, rejected or resolved
  rimrafCalls, \* the arguments rimraf was called with in this run
  chunkA,      \* a chunk descriptor handed to chunkWrapper
  chunkB,      \* another one
  wrapperA,    \* what chunkWrapper(chunkA) returned (<<>>: not called yet)
  wrapperB,    \* what chunkWrapper(chunkB) returned
  wrapperAgain,\* what a second call chunkWrapper(chunkA) returned
  shimPc,      \* where buildShims is: idle, writingPkg, awaitAll, removing, resolved or rejected
  taskPc,      \* per chunk, where its shim task is: none, import, write, done or failed
  shimFs,      \* the files that exist in BUILD_DIR
  shimWrites   \* the writeFile calls that have finished, in order: path, writer, text

buildVars == <<tree, manifest, manifestTree>>
loadVars == <<env, heap, exported, run, log, loads, ran, made, rootFirst>>
stripVars == <<text, pieces, stripped, phase>>
pipeVars == <<buildDir, fs, fsBefore, task, queue, pc, proc, events, outcome,
              cleanResult, rimrafCalls>>
wrapVars == <<chunkA, chunkB, wrapperA, wrapperB, wrapperAgain>>
shimVars == <<shimPc, taskPc, shimFs, shimWrites>>

-----------------------------------------------------------------------------
(* Bounds *)

\* How many chunks of the declared list are kept.
NumChunks == 3

\* How many wrappers a host runs.
MaxLoads == 3

\* How many pieces (a comment block or a single token) a source file has.
MaxPieces == 3

-----------------------------------------------------------------------------
(* Constants of the script *)

TSC_OUTPUT_DIR_POSIX == <<"build", "src">>
COMPILED_SUFFIX == "_compressed"
NAMESPACE_VARIABLE == "$"
NAMESPACE_PROPERTY == "__namespace__"

\* chunk.files is a glob or an array of globs.  A glob is a record: deep
\* stands for <dir>/**/*.js, otherwise the glob is the literal path dir.
OneGlob(g) == [isString |-> TRUE, value |-> g]
Globs(gs) == [isString |-> FALSE, value |-> gs]
Deep(dir) == [dir |-> dir, deep |-> TRUE]
Literal(path) == [dir |-> path, deep |-> FALSE]

GeneratorChunk(lang, location, namedExport) ==
  [name |-> lang,
   files |-> Globs(<<Literal(<<"generators", lang, ".js">>),
                     Deep(<<"generators", lang>>)>>),
   entry |-> <<"generators", lang, ".js">>,
   scriptExport |-> <<lang>>,
   scriptNamedExports |-> <<[location |-> location, namedExport |-> namedExport]>>]

\* The declared list, before the parents are set.
chunkDecls ==
  << [name |-> "blockly",
      files |-> OneGlob(Deep(<<"core">>)),
      entry |-> <<"core", "blockly", ".js">>,
      scriptExport |-> <<"Blockly">>,
      scriptNamedExports |-> <<>>],
     [name |-> "blocks",
      files |-> OneGlob(Deep(<<"blocks">>)),
      entry |-> <<"blocks", "blocks", ".js">>,
      scriptExport |-> <<"Blockly", "libraryBlocks">>,
      scriptNamedExports |-> <<>>],
     GeneratorChunk("javascript", <<"Blockly", "JavaScript">>, "javascriptGenerator"),
     GeneratorChunk("python", <<"Blockly", "Python">>, "pythonGenerator"),
     GeneratorChunk("php", <<"Blockly", "PHP">>, "phpGenerator"),
     GeneratorChunk("lua", <<"Blockly", "Lua">>, "luaGenerator"),
     GeneratorChunk("dart", <<"Blockly", "Dart">>, "dartGenerator") >>

\* A second declared list: a root, a child exported at a nested location, a
\* chunk with two named exports and overlapping globs.
scenarioDecls ==
  << [name |-> "root",
      files |-> OneGlob(Deep(<<"core">>)),
      entry |-> <<"core", "blockly", ".js">>,
      scriptExport |-> <<"R">>,
      scriptNamedExports |-> <<>>],
     [name |-> "child",
      files |-> OneGlob(Deep(<<"blocks">>)),
      entry |-> <<"blocks", "blocks", ".js">>,
      scriptExport |-> <<"R", "Child">>,
      scriptNamedExports |-> <<>>],
     [name |-> "gen",
      files |-> Globs(<<Literal(<<"generators", "javascript", ".js">>),
                        Deep(<<"generators">>)>>),
      entry |-> <<"generators", "javascript", ".js">>,
      scriptExport |-> <<"gen">>,
      scriptNamedExports |-> <<[location |-> <<"R", "B">>, namedExport |-> "x"],
                               [location |-> <<"R", "C">>, namedExport |-> "y"]>>],
     GeneratorChunk("python", <<"R", "Python">>, "pythonGenerator") >>

Min(a, b) == IF a < b THEN a ELSE b

\* chunks[0].parent = null; chunks[i].parent = chunks[0] for i >= 1.  The
\* parent is <<>> for null and <<c>> for a reference to chunk c.
WithParent(decl, parent) ==
  [name |-> decl.name, files |-> decl.files, entry |-> decl.entry,
   scriptExport |-> decl.scriptExport,
   scriptNamedExports |-> decl.scriptNamedExports,
   parent |-> parent]

\* As SetParents, with each chunk's parent the chunk declared before it.
SetParents_Chain(decls) ==
  LET RECURSIVE linked(_)
      linked(i) == IF i = 1 THEN WithParent(decls[1], <<>>)
                   ELSE WithParent(decls[i], <<linked(i - 1)>>)
  IN [i \in 1..Len(decls) |-> linked(i)]

SetParents(decls) ==
  LET root == WithParent(decls[1], <<>>)
  IN [i \in 1..Len(decls) |->
        IF i = 1 THEN root ELSE WithParent(decls[i], <<root>>)]

ChunkLists ==
  { SetParents(SubSeq(d, 1, Min(NumChunks, Len(d)))) : d \in {chunkDecls, scenarioDecls} }

-----------------------------------------------------------------------------
(* modulePath and chunkWrapper *)

PathJoin(a, b) == a \o b

\* As modulePath, with the module object named after the chunk.
modulePath_ByName(chunk) == <<"module", chunk.name>>

\* 'module$' + entryPath.replace(/\.js$/, '').replaceAll('/', '$'): the
\* segments of the result are those the '$' signs separate.
modulePath(chunk) ==
  LET entryPath == PathJoin(TSC_OUTPUT_DIR_POSIX, chunk.entry)
      n == Len(entryPath)
      stem == IF n > 0 /\ entryPath[n] = ".js" THEN SubSeq(entryPath, 1, n - 1)
              ELSE entryPath
  IN <<"module">> \o stem

HasParent(chunk) == chunk.parent # <<>>

\* As ScriptExportStatements, with the named exports in reverse order.
ScriptExportStatements_Reversed(chunk, scriptDepsExpr) ==
  LET n == Len(chunk.scriptNamedExports)
  IN << [target |-> <<"root">> \o chunk.scriptExport,
         callsFactory |-> TRUE,
         args |-> scriptDepsExpr,
         value |-> <<>>] >>
     \o [i \in 1..n |->
           [target |-> <<"root">> \o chunk.scriptNamedExports[n + 1 - i].location,
            callsFactory |-> FALSE,
            args |-> <<>>,
            value |-> <<"root">> \o chunk.scriptExport
                        \o <<chunk.scriptNamedExports[n + 1 - i].namedExport>>]]

ScriptExportStatements(chunk, scriptDepsExpr) ==
  << [target |-> <<"root">> \o chunk.scriptExport,
      callsFactory |-> TRUE,
      args |-> scriptDepsExpr,
      value |-> <<>>] >>
  \o [i \in 1..Len(chunk.scriptNamedExports) |->
        [target |-> <<"root">> \o chunk.scriptNamedExports[i].location,
         callsFactory |-> FALSE,
         args |-> <<>>,
         value |-> <<"root">> \o chunk.scriptExport
                     \o <<chunk.scriptNamedExports[i].namedExport>>]]

\* As chunkWrapper, with the script dependency taken from the parent's name
\* instead of its scriptExport.
chunkWrapper_DepByName(chunk) ==
  LET parentFilename == "./" \o chunk.parent[1].name \o COMPILED_SUFFIX \o ".js"
      deps == IF HasParent(chunk) THEN <<parentFilename>> ELSE <<>>
      scriptDepsExpr ==
        IF HasParent(chunk) THEN << <<"root", chunk.parent[1].name>> >> ELSE <<>>
      factoryArgs == IF HasParent(chunk) THEN <<"__parent__">> ELSE <<>>
  IN [amdDefine |-> deps,
      cjsRequire |-> deps,
      script |-> ScriptExportStatements(chunk, scriptDepsExpr),
      factoryArgs |-> factoryArgs,
      namespaceVar |-> NAMESPACE_VARIABLE,
      namespaceExpr |-> IF HasParent(chunk) THEN factoryArgs \o <<NAMESPACE_PROPERTY>>
                        ELSE <<"{}">>,
      attachTo |-> modulePath(chunk),
      attachProp |-> NAMESPACE_PROPERTY,
      attachValue |-> NAMESPACE_VARIABLE,
      returns |-> modulePath(chunk)]

\* As chunkWrapper, with every factory creating its own namespace object.
chunkWrapper_OwnNamespace(chunk) ==
  LET parentFilename == "./" \o chunk.parent[1].name \o COMPILED_SUFFIX \o ".js"
      deps == IF HasParent(chunk) THEN <<parentFilename>> ELSE <<>>
      scriptDepsExpr ==
        IF HasParent(chunk) THEN << <<"root">> \o chunk.parent[1].scriptExport >>
        ELSE <<>>
  IN [amdDefine |-> deps,
      cjsRequire |-> deps,
      script |-> ScriptExportStatements(chunk, scriptDepsExpr),
      factoryArgs |-> IF HasParent(chunk) THEN <<"__parent__">> ELSE <<>>,
      namespaceVar |-> NAMESPACE_VARIABLE,
      namespaceExpr |-> <<"{}">>,
      attachTo |-> modulePath(chunk),
      attachProp |-> NAMESPACE_PROPERTY,
      attachValue |-> NAMESPACE_VARIABLE,
      returns |-> modulePath(chunk)]

chunkWrapper(chunk) ==
  LET parentFilename == "./" \o chunk.parent[1].name \o COMPILED_SUFFIX \o ".js"
      amdDepsExpr == IF HasParent(chunk) THEN <<parentFilename>> ELSE <<>>
      cjsDepsExpr == IF HasParent(chunk) THEN <<parentFilename>> ELSE <<>>
      scriptDepsExpr ==
        IF HasParent(chunk) THEN << <<"root">> \o chunk.parent[1].scriptExport >>
        ELSE <<>>
      factoryArgs == IF HasParent(chunk) THEN <<"__parent__">> ELSE <<>>
      namespaceExpr ==
        IF HasParent(chunk) THEN factoryArgs \o <<NAMESPACE_PROPERTY>>
        ELSE <<"{}">>
  IN [amdDefine |-> amdDepsExpr,            \* define([<deps>], factory)
      cjsRequire |-> cjsDepsExpr,           \* module.exports = factory(require(<dep>))
      script |-> ScriptExportStatements(chunk, scriptDepsExpr),
      factoryArgs |-> factoryArgs,          \* function(<args>) {
      namespaceVar |-> NAMESPACE_VARIABLE,  \* var $=<namespaceExpr>;
      namespaceExpr |-> namespaceExpr,
      attachTo |-> modulePath(chunk),       \* <module>.__namespace__=$;
      attachProp |-> NAMESPACE_PROPERTY,
      attachValue |-> NAMESPACE_VARIABLE,
      returns |-> modulePath(chunk)]        \* return <module>;

-----------------------------------------------------------------------------
(* getChunkOptions *)

\* The files tsc may emit, in directory-listing order.
FileUniverse ==
  << <<"core", "blockly", ".js">>,
     <<"core", "utils", "dom", ".js">>,
     <<"core", "blockly", ".d.ts">>,
     <<"blocks", "blocks", ".js">>,
     <<"blocks", "math", ".js">>,
     <<"generators", "javascript", ".js">>,
     <<"generators", "javascript", "math", ".js">> >>

IsPrefix(p, f) == Len(p) <= Len(f) /\ SubSeq(f, 1, Len(p)) = p

Matches(glob, file) ==
  IF glob.deep
    THEN /\ IsPrefix(glob.dir, file)
         /\ Len(file) >= Len(glob.dir) + 2
         /\ file[Len(file)] = ".js"
    ELSE file = glob.dir

RECURSIVE Filter(_, _, _)
Filter(files, present, glob) ==
  IF files = <<>> THEN <<>>
  ELSE (IF Head(files) \in present /\ Matches(glob, Head(files))
          THEN <<Head(files)>> ELSE <<>>)
       \o Filter(Tail(files), present, glob)

\* globSync(glob, {cwd: TSC_OUTPUT_DIR_POSIX})
globSync(glob, present) == Filter(FileUniverse, present, glob)

RECURSIVE FlatMapGlobs(_, _)
FlatMapGlobs(globs, present) ==
  IF globs = <<>> THEN <<>>
  ELSE globSync(Head(globs), present) \o FlatMapGlobs(Tail(globs), present)

\* typeof chunk.files === 'string' ? [chunk.files] : chunk.files
GlobsOf(chunk) ==
  IF chunk.files.isString THEN <<chunk.files.value>> ELSE chunk.files.value

\* The body of the loop over the chunks: the files of one chunk.
ChunkFiles(chunk, present) ==
  LET globs == GlobsOf(chunk)
      found == FlatMapGlobs(globs, present)
  IN [i \in 1..Len(found) |-> PathJoin(TSC_OUTPUT_DIR_POSIX, found[i])]

ChunkOption(chunk, files) ==
  <<chunk.name, Len(files)>>
  \o (IF HasParent(chunk) THEN <<chunk.parent[1].name>> ELSE <<>>)

\* As ChunkLoop, putting each chunk's files in front of those already held.
RECURSIVE ChunkLoop_Unshift(_, _, _, _)
ChunkLoop_Unshift(chs, present, chunkOptions, allFiles) ==
  IF chs = <<>> THEN [chunkOptions |-> chunkOptions, allFiles |-> allFiles]
  ELSE LET files == ChunkFiles(Head(chs), present)
       IN ChunkLoop_Unshift(Tail(chs), present,
                            Append(chunkOptions, ChunkOption(Head(chs), files)),
                            files \o allFiles)

RECURSIVE ChunkLoop(_, _, _, _)
ChunkLoop(chs, present, chunkOptions, allFiles) ==
  IF chs = <<>> THEN [chunkOptions |-> chunkOptions, allFiles |-> allFiles]
  ELSE LET files == ChunkFiles(Head(chs), present)
       IN ChunkLoop(Tail(chs), present,
                    Append(chunkOptions, ChunkOption(Head(chs), files)),
                    allFiles \o files)

\* As getChunkOptions, refusing a chunk whose entry is not among its files.
getChunkOptions_Validating(chs, present) ==
  LET loop == ChunkLoop(chs, present, <<>>, <<>>)
      entryFound(c) ==
        \E k \in 1..Len(ChunkFiles(c, present)) :
          ChunkFiles(c, present)[k] = PathJoin(TSC_OUTPUT_DIR_POSIX, c.entry)
  IN IF \A i \in 1..Len(chs) : entryFound(chs[i])
       THEN [outcome |-> "returned",
             chunk |-> loop.chunkOptions,
             js |-> loop.allFiles,
             chunk_wrapper |-> [i \in 1..Len(chs) |-> <<chs[i].name, chunkWrapper(chs[i])>>]]
       ELSE [outcome |-> "ConfigurationError",
             chunk |-> <<>>, js |-> <<>>, chunk_wrapper |-> <<>>]

getChunkOptions(chs, present) ==
  LET loop == ChunkLoop(chs, present, <<>>, <<>>)
      chunkWrappers == [i \in 1..Len(chs) |-> <<chs[i].name, chunkWrapper(chs[i])>>]
  IN [outcome |-> "returned",
      chunk |-> loop.chunkOptions,
      js |-> loop.allFiles,
      chunk_wrapper |-> chunkWrappers]

NoManifest == [outcome |-> "none", chunk |-> <<>>, js |-> <<>>, chunk_wrapper |-> <<>>]

-----------------------------------------------------------------------------
(* The build tasks that read the chunk list *)

NoBuild ==
  /\ tree = {}
  /\ manifest = NoManifest
  /\ manifestTree = {}

NoRun == [chunk |-> 0, stmt |-> 0, phase |-> "idle", base |-> 0, val |-> 0, ret |-> 0,
          late |-> FALSE]

NoLoad ==
  /\ env = "none"
  /\ heap = <<>>
  /\ exported = <<>>
  /\ run = NoRun
  /\ log = <<>>
  /\ loads = 0
  /\ ran = {}
  /\ made = <<>>
  /\ rootFirst = TRUE

NoStrip ==
  /\ text = <<>>
  /\ pieces = 0
  /\ stripped = <<>>
  /\ phase = "none"

NoPipeline ==
  /\ buildDir = "build"
  /\ fs = {}
  /\ fsBefore = {}
  /\ task = "none"
  /\ queue = <<>>
  /\ pc = "none"
  /\ proc = "none"
  /\ events = <<>>
  /\ outcome = "idle"
  /\ cleanResult = "none"
  /\ rimrafCalls = <<>>

NoWrap ==
  /\ chunkA = <<>>
  /\ chunkB = <<>>
  /\ wrapperA = <<>>
  /\ wrapperB = <<>>
  /\ wrapperAgain = <<>>

NoShims ==
  /\ shimPc = "idle"
  /\ taskPc = <<>>
  /\ shimFs = {}
  /\ shimWrites = <<>>

InitBuild ==
  /\ chunks \in ChunkLists
  /\ NoBuild
  /\ NoShims
  /\ NoWrap
  /\ NoLoad
  /\ NoStrip
  /\ NoPipeline

\* tsc writes one more file under TSC_OUTPUT_DIR.
TscEmit ==
  /\ \E i \in 1..Len(FileUniverse) :
        /\ FileUniverse[i] \notin tree
        /\ tree' = tree \cup {FileUniverse[i]}
  /\ UNCHANGED <<chunks, manifest, manifestTree>>
  /\ UNCHANGED <<loadVars, stripVars, pipeVars, wrapVars, shimVars>>

\* buildCompiled's first statement.
GetChunkOptions ==
  /\ manifest' = getChunkOptions(chunks, tree)
  /\ manifestTree' = tree
  /\ UNCHANGED <<chunks, tree>>
  /\ UNCHANGED <<loadVars, stripVars, pipeVars, wrapVars, shimVars>>

NextBuild == TscEmit \/ GetChunkOptions

vars == <<chunks, buildVars, loadVars, stripVars, pipeVars, wrapVars, shimVars>>

Spec == InitBuild /\ [][NextBuild]_vars

-----------------------------------------------------------------------------
(* Properties of the manifest *)

Returned == manifest.outcome = "returned"

\* The glob-resolved file list of a chunk, stated on its own: for each glob
\* in order, the present files it matches, below TSC_OUTPUT_DIR.
RECURSIVE Resolved(_, _)
Resolved(globs, present) ==
  IF globs = <<>> THEN <<>>
  ELSE LET hit(f) == f \in present /\ Matches(Head(globs), f)
           found == SelectSeq(FileUniverse, hit)
       IN [i \in 1..Len(found) |-> TSC_OUTPUT_DIR_POSIX \o found[i]]
          \o Resolved(Tail(globs), present)

ResolvedOf(i) == Resolved(GlobsOf(chunks[i]), manifestTree)

Count(i) == manifest.chunk[i][2]

RECURSIVE SumCounts(_)
SumCounts(n) == IF n = 0 THEN 0 ELSE SumCounts(n - 1) + Count(n)

\* C2: getChunkOptions returns one descriptor per chunk in declaration order;
\* js is the concatenation, in that order, of the chunks' glob-resolved file
\* lists; each count is the length of its chunk's list, so the counts sum to
\* js.length and chunk i's files are the count_i entries of js that follow
\* the first count_1 + ... + count_(i-1).
C2_ManifestIsConcatenation ==
  Returned =>
    /\ Len(manifest.chunk) = Len(chunks)
    /\ \A i \in 1..Len(chunks) :
          /\ manifest.chunk[i][1] = chunks[i].name
          /\ Count(i) = Len(ResolvedOf(i))
          /\ SubSeq(manifest.js, SumCounts(i - 1) + 1, SumCounts(i)) = ResolvedOf(i)
    /\ SumCounts(Len(chunks)) = Len(manifest.js)

\* Two chunks with files, one of them with a file that two of its globs match.
C2_Witness ==
  /\ Returned
  /\ \E i, j \in 1..Len(chunks) :
        /\ i # j /\ Count(i) >= 2 /\ Count(j) >= 1
        /\ \E a, b \in 1..Count(i) : a # b /\ ResolvedOf(i)[a] = ResolvedOf(i)[b]

Wrapper(i) == manifest.chunk_wrapper[i][2]

\* C3: a wrapper names ./<parentName>_compressed.js in define's dependency
\* array and in a require call, and passes root.<parent.scriptExport> as the
\* factory's only argument in the script branch, exactly when its chunk has
\* a parent; the root chunk's wrapper names no dependency and its factory
\* takes no argument.
C3_DependencyIffParent ==
  Returned =>
    \A i \in 1..Len(chunks) :
      LET w == Wrapper(i)
          call == w.script[1]
      IN IF i = 1
           THEN /\ w.amdDefine = <<>> /\ w.cjsRequire = <<>>
                /\ call.args = <<>> /\ w.factoryArgs = <<>>
           ELSE /\ w.amdDefine = <<"./" \o chunks[1].name \o "_compressed.js">>
                /\ w.cjsRequire = <<"./" \o chunks[1].name \o "_compressed.js">>
                /\ call.args = << <<"root">> \o chunks[1].scriptExport >>
                /\ Len(w.factoryArgs) = 1

C3_Witness ==
  /\ Returned
  /\ Len(chunks) >= 2
  /\ Wrapper(2).amdDefine # <<>>
  /\ Wrapper(1).amdDefine = <<>>

EntryResolved(i) ==
  \E k \in 1..Len(ResolvedOf(i)) :
    ResolvedOf(i)[k] = TSC_OUTPUT_DIR_POSIX \o chunks[i].entry

\* C8 (as amended): getChunkOptions checks no entry path: whenever it is
\* called it returns a manifest with one descriptor per chunk, also when
\* some chunk's entry is not among that chunk's resolved files.
C8_NoEntryValidation ==
  manifest.outcome # "none" =>
    /\ Returned
    /\ Len(manifest.chunk) = Len(chunks)
    /\ Len(manifest.chunk_wrapper) = Len(chunks)

C8_Witness ==
  /\ Returned
  /\ \E i \in 1..Len(chunks) : ~EntryResolved(i)
  /\ \E i \in 1..Len(chunks) : EntryResolved(i)

\* C8 (as claimed): a manifest is produced only when every chunk's entry is
\* among its resolved files.
C8_AsClaimed ==
  Returned => \A i \in 1..Len(chunks) : EntryResolved(i)

-----------------------------------------------------------------------------
(* A JavaScript host running the synthesized wrappers *)

\* The object the wrapper receives as root (this).
RootObj == 1

Range(s) == {s[i] : i \in DOMAIN s}

Props ==
  {NAMESPACE_PROPERTY}
  \cup UNION { Range(chunks[i].scriptExport) : i \in DOMAIN chunks }
  \cup UNION { UNION { Range(chunks[i].scriptNamedExports[k].location)
                       \cup {chunks[i].scriptNamedExports[k].namedExport}
                       : k \in DOMAIN chunks[i].scriptNamedExports }
               : i \in DOMAIN chunks }

EmptyObj == [p \in Props |-> 0]

\* o.p: 0 stands for undefined.
Prop(h, o, p) == IF p \in DOMAIN h[o] THEN h[o][p] ELSE 0

\* o.p = v
Put(h, o, p, v) ==
  [h EXCEPT ![o] = [q \in (DOMAIN h[o]) \cup {p} |-> IF q = p THEN v ELSE h[o][q]]]

\* o.p1.p2...: -1 stands for the TypeError of reading a property of undefined.
RECURSIVE Get(_, _, _)
Get(h, o, props) ==
  IF props = <<>> THEN o
  ELSE IF o <= 0 THEN -1
  ELSE Get(h, Prop(h, o, Head(props)), Tail(props))

\* The value of root.p1.p2...; any other free variable is a ReferenceError.
EvalPath(h, path) ==
  IF path # <<>> /\ Head(path) = "root" THEN Get(h, RootObj, Tail(path)) ELSE -1

\* The factory of chunk c's wrapper called with argVals: the function body
\* var $=<namespaceExpr>; %output% <module>.__namespace__=$; return <module>;
\* where %output% defines the module object modulePath(chunk) with the
\* chunk's exports.
Factory(h, c, argVals) ==
  LET chunk == chunks[c]
      w == chunkWrapper(chunk)
      isParam(name) == \E i \in DOMAIN w.factoryArgs : w.factoryArgs[i] = name
      paramVal(name) ==
        IF isParam(name)
          THEN LET i == CHOOSE k \in DOMAIN w.factoryArgs : w.factoryArgs[k] = name
               IN IF i <= Len(argVals) THEN argVals[i] ELSE 0
          ELSE -1
      literal == w.namespaceExpr = <<"{}">>
      h1 == IF literal THEN Append(h, EmptyObj) ELSE h
      ns == IF literal THEN Len(h1)
            ELSE Get(h, paramVal(Head(w.namespaceExpr)), Tail(w.namespaceExpr))
      names == [k \in DOMAIN chunk.scriptNamedExports |->
                  chunk.scriptNamedExports[k].namedExport]
      h2 == h1 \o [k \in DOMAIN names |-> EmptyObj]
      m == Len(h2) + 1
      exportOf(p) ==
        IF \E k \in DOMAIN names : names[k] = p
          THEN Len(h1) + (CHOOSE k \in DOMAIN names : names[k] = p)
          ELSE 0
      h3 == Append(h2, [p \in Props |-> exportOf(p)])
      bound == /\ w.attachTo = modulePath(chunk)
               /\ w.attachValue = w.namespaceVar
               /\ w.returns = modulePath(chunk)
  IN IF ns = -1 \/ ~bound
       THEN [threw |-> TRUE, heap |-> h, ret |-> 0, created |-> {}]
       ELSE [threw |-> FALSE,
             heap |-> Put(h3, m, w.attachProp, ns),
             ret |-> m,
             created |-> IF literal THEN {ns} ELSE {}]

\* gulp.rename({suffix: COMPILED_SUFFIX}): the file a chunk is written to.
CompiledFile(chunk) == "./" \o chunk.name \o COMPILED_SUFFIX \o ".js"

\* The root's wrapper ran before c's does, or c is the root and no child's ran.
OrderKept(c) == IF c = 1 THEN ran \subseteq {1} ELSE 1 \in ran

InitLoad ==
  /\ chunks \in ChunkLists
  /\ NoBuild
  /\ NoShims
  /\ NoWrap
  /\ NoStrip
  /\ NoPipeline
  /\ env \in {"script", "cjs", "amd"}
  /\ heap = <<EmptyObj>>
  /\ exported = [i \in DOMAIN chunks |-> 0]
  /\ run = NoRun
  /\ log = <<>>
  /\ loads = 0
  /\ ran = {}
  /\ made = [i \in DOMAIN chunks |-> {}]
  /\ rootFirst = TRUE

Event(kind, path) == [kind |-> kind, chunk |-> run.chunk, stmt |-> run.stmt, path |-> path]

Stmt == chunkWrapper(chunks[run.chunk]).script[run.stmt]

\* A <script> tag for chunk c: the wrapper takes its Script branch.
LoadScript ==
  \E c \in DOMAIN chunks :
    /\ env = "script"
    /\ run.phase = "idle"
    /\ loads < MaxLoads
    /\ run' = [NoRun EXCEPT !.chunk = c, !.stmt = 1, !.phase = "target"]
    /\ log' = <<>>
    /\ loads' = loads + 1
    /\ ran' = ran \cup {c}
    /\ rootFirst' = (rootFirst /\ OrderKept(c))
    /\ UNCHANGED <<env, heap, exported, made>>
    /\ UNCHANGED <<chunks, buildVars, stripVars, pipeVars, wrapVars, shimVars>>

\* An assignment statement first evaluates its left-hand side: the object
\* whose property is assigned.  When that object is undefined the TypeError
\* is raised here or by the assignment itself, depending on the engine.
EvalTarget ==
  /\ run.phase = "target"
  /\ LET t == Stmt.target
         base == EvalPath(heap, SubSeq(t, 1, Len(t) - 1))
     IN \E late \in BOOLEAN :
          /\ late => base = 0
          /\ IF base > 0 \/ late
               THEN /\ run' = [run EXCEPT !.phase = "value", !.base = base, !.late = late]
                    /\ log' = Append(log, Event("target", t))
               ELSE /\ run' = NoRun
                    /\ log' = log \o <<Event("target", t), Event("throw", t)>>
  /\ UNCHANGED <<env, heap, exported, loads, ran, made, rootFirst>>
  /\ UNCHANGED <<chunks, buildVars, stripVars, pipeVars, wrapVars, shimVars>>

\* Then its right-hand side: factory(<deps>) or root.<scriptExport>.<name>.
EvalValue ==
  /\ run.phase = "value"
  /\ LET st == Stmt
         argVals == [i \in DOMAIN st.args |-> EvalPath(heap, st.args[i])]
         f == Factory(heap, run.chunk, argVals)
         v == EvalPath(heap, st.value)
     IN IF st.callsFactory
          THEN IF (\E i \in DOMAIN argVals : argVals[i] = -1) \/ f.threw
                 THEN /\ run' = NoRun
                      /\ log' = log \o <<Event("factory", <<>>), Event("throw", <<>>)>>
                      /\ UNCHANGED <<heap, made>>
                 ELSE /\ run' = [run EXCEPT !.phase = "put", !.val = f.ret, !.ret = f.ret]
                      /\ log' = Append(log, Event("factory", <<>>))
                      /\ heap' = f.heap
                      /\ made' = [made EXCEPT ![run.chunk] = @ \cup f.created]
          ELSE /\ IF v = -1
                    THEN /\ run' = NoRun
                         /\ log' = log \o <<Event("read", st.value), Event("throw", st.value)>>
                    ELSE /\ run' = [run EXCEPT !.phase = "put", !.val = v]
                         /\ log' = Append(log, Event("read", st.value))
               /\ UNCHANGED <<heap, made>>
  /\ UNCHANGED <<env, exported, loads, ran, rootFirst>>
  /\ UNCHANGED <<chunks, buildVars, stripVars, pipeVars, wrapVars, shimVars>>

\* Then the assignment; after the last statement the load is over.
PutValue ==
  /\ run.phase = "put"
  /\ LET st == Stmt
         t == st.target
         last == run.stmt = Len(chunkWrapper(chunks[run.chunk]).script)
     IN IF run.late
          THEN /\ run' = NoRun
               /\ log' = Append(log, Event("throw", t))
               /\ UNCHANGED <<heap, exported>>
          ELSE /\ heap' = Put(heap, run.base, t[Len(t)], run.val)
               /\ log' = Append(log, Event("assign", t))
               /\ exported' = IF st.callsFactory
                                THEN [exported EXCEPT ![run.chunk] = run.val]
                                ELSE exported
               /\ run' = IF last THEN NoRun
                         ELSE [run EXCEPT !.stmt = @ + 1, !.phase = "target",
                                          !.base = 0, !.val = 0]
  /\ UNCHANGED <<env, loads, ran, made, rootFirst>>
  /\ UNCHANGED <<chunks, buildVars, stripVars, pipeVars, wrapVars, shimVars>>

\* require(file) / define([file], factory): the module system runs the
\* wrapper of a file once and keeps what its factory returned.
RECURSIVE RequireModule(_, _, _, _, _)
RequireModule(h, ex, mk, c, fuel) ==
  LET w == chunkWrapper(chunks[c])
      deps == IF env = "cjs" THEN w.cjsRequire ELSE w.amdDefine
      failed == [threw |-> TRUE, heap |-> h, exported |-> ex, made |-> mk, ret |-> 0,
                 ranNow |-> {}]
  IN IF ex[c] # 0
       THEN [threw |-> FALSE, heap |-> h, exported |-> ex, made |-> mk, ret |-> ex[c],
             ranNow |-> {}]
     ELSE IF deps = <<>>
       THEN LET f == Factory(h, c, <<>>)
            IN IF f.threw THEN failed
               ELSE [threw |-> FALSE, heap |-> f.heap,
                     exported |-> [ex EXCEPT ![c] = f.ret],
                     made |-> [mk EXCEPT ![c] = @ \cup f.created],
                     ret |-> f.ret, ranNow |-> {c}]
     ELSE IF fuel = 0 \/ ~\E d \in DOMAIN chunks : CompiledFile(chunks[d]) = deps[1]
       THEN failed
     ELSE LET d == CHOOSE k \in DOMAIN chunks : CompiledFile(chunks[k]) = deps[1]
              r == RequireModule(h, ex, mk, d, fuel - 1)
              f == Factory(r.heap, c, <<r.ret>>)
          IN IF r.threw \/ f.threw THEN failed
             ELSE [threw |-> FALSE, heap |-> f.heap,
                   exported |-> [r.exported EXCEPT ![c] = f.ret],
                   made |-> [r.made EXCEPT ![c] = @ \cup f.created],
                   ret |-> f.ret, ranNow |-> r.ranNow \cup {c}]

Require ==
  \E c \in DOMAIN chunks :
    /\ env \in {"cjs", "amd"}
    /\ loads < MaxLoads
    /\ LET r == RequireModule(heap, exported, made, c, Len(chunks))
       IN /\ heap' = r.heap
          /\ exported' = r.exported
          /\ made' = r.made
          /\ ran' = ran \cup r.ranNow
    /\ loads' = loads + 1
    /\ UNCHANGED <<env, run, log, rootFirst>>
    /\ UNCHANGED <<chunks, buildVars, stripVars, pipeVars, wrapVars, shimVars>>

NextLoad == LoadScript \/ EvalTarget \/ EvalValue \/ PutValue \/ Require

SpecLoad == InitLoad /\ [][NextLoad]_vars

Namespace(c) == Prop(heap, exported[c], NAMESPACE_PROPERTY)

\* C1: when the root's wrapper has run before any child's, the object under
\* NAMESPACE_PROPERTY on the export object of every loaded chunk is the one
\* object the root's factory created; no child's factory creates one.
C1_OneNamespace ==
  rootFirst =>
    \A c \in DOMAIN chunks :
      exported[c] # 0 =>
        /\ exported[1] # 0
        /\ Namespace(c) = Namespace(1)
        /\ Namespace(c) \in made[1]
        /\ c # 1 => made[c] = {}

C1_Witness ==
  /\ rootFirst
  /\ env = "script"
  /\ Len(chunks) >= 3
  /\ exported[2] # 0
  /\ exported[3] # 0
  /\ run.phase = "idle"

\* C4 (as claimed): in the script branch the factory is invoked in a statement
\* of its own, before the statement that assigns root.<scriptExport>, so the
\* target of that assignment (with the object a nested path starts from) is
\* evaluated only after the factory has been invoked and has returned.
C4_TargetAfterFactory ==
  \A i \in DOMAIN log :
    (/\ log[i].kind = "target"
     /\ log[i].path = <<"root">> \o chunks[log[i].chunk].scriptExport)
    => \E j \in 1..(i - 1) : log[j].kind = "factory"

\* What the script branch of chunk c does when nothing throws, read off the
\* chunk's declaration.
ExpectedLog(c) ==
  LET ch == chunks[c]
      primary == <<"root">> \o ch.scriptExport
      named == ch.scriptNamedExports
      ev(kind, k, path) == [kind |-> kind, chunk |-> c, stmt |-> k, path |-> path]
  IN [j \in 1..(3 + 3 * Len(named)) |->
        LET k == ((j - 1) \div 3) + 1
            part == (j - 1) % 3
        IN IF k = 1
             THEN CASE part = 0 -> ev("target", 1, primary)
                    [] part = 1 -> ev("factory", 1, <<>>)
                    [] OTHER -> ev("assign", 1, primary)
             ELSE CASE part = 0 -> ev("target", k, <<"root">> \o named[k - 1].location)
                    [] part = 1 -> ev("read", k, primary \o <<named[k - 1].namedExport>>)
                    [] OTHER -> ev("assign", k, <<"root">> \o named[k - 1].location)]

Threw == log # <<>> /\ log[Len(log)].kind = "throw"
Done == log # <<>> /\ run.phase = "idle" /\ ~Threw
LogSteps == IF Threw THEN SubSeq(log, 1, Len(log) - 1) ELSE log

\* C5: the script branch invokes the factory and assigns root.<scriptExport>
\* once, before any named export is assigned; it assigns the named exports in
\* the order of scriptNamedExports, each read from root.<scriptExport>.<name>
\* and not from another call of the factory.
C5_NamedExportOrder ==
  log # <<>> =>
    LET c == log[1].chunk
        named == chunks[c].scriptNamedExports
    IN /\ IsPrefix(LogSteps, ExpectedLog(c))
       /\ Done =>
            /\ log = ExpectedLog(c)
            /\ \A k \in DOMAIN named :
                 /\ EvalPath(heap, <<"root">> \o named[k].location)
                      = Prop(heap, exported[c], named[k].namedExport)
                 /\ Prop(heap, exported[c], named[k].namedExport) > 0

C5_Witness ==
  /\ Done
  /\ Len(chunks[log[1].chunk].scriptNamedExports) = 2
  /\ Len(log) = 9

-----------------------------------------------------------------------------
(* stripApacheLicense *)

\* A text is a sequence of tokens: NL is one newline character, any other
\* token a run of characters without a newline.
NL == "\n"
OPEN == "/**"
LICENSE == " * @license"
GOOGLE == " * Copyright 2018 Google LLC"
MIT == " * Copyright 2011 Massachusetts Institute of Technology"
SOMEONE == " * Copyright 2018 Someone Else"
RESERVED == " * All rights reserved."
SPDX == " * SPDX-License-Identifier: Apache-2.0"
CLOSE == " */"
CODE == "code();"

\* licenseRegex: each element is the set of tokens it matches; the group
\* followed by ? is optional.
licenseRegex ==
  [head |-> << {OPEN}, {NL}, {LICENSE}, {NL}, {GOOGLE, MIT}, {NL} >>,
   optional |-> << {RESERVED}, {NL} >>,
   tail |-> << {SPDX}, {NL}, {CLOSE} >>]

\* Whether the elements of pattern match the tokens of t from position i on.
MatchesAt(pattern, t, i) ==
  /\ i + Len(pattern) - 1 <= Len(t)
  /\ \A k \in DOMAIN pattern : t[i + k - 1] \in pattern[k]

\* The length of the match of the regular expression at position i, 0 for
\* none: the optional group is tried first, then skipped.
MatchLen(re, t, i) ==
  IF MatchesAt(re.head \o re.optional \o re.tail, t, i)
    THEN Len(re.head) + Len(re.optional) + Len(re.tail)
  ELSE IF MatchesAt(re.head \o re.tail, t, i)
    THEN Len(re.head) + Len(re.tail)
  ELSE 0

\* String.prototype.replace with a global regular expression: matches are
\* taken left to right, each replaced, the rest copied.
RECURSIVE Replace(_, _, _, _)
Replace(re, replacement, t, i) ==
  IF i > Len(t) THEN <<>>
  ELSE IF MatchLen(re, t, i) > 0
    THEN replacement \o Replace(re, replacement, t, i + MatchLen(re, t, i))
  ELSE <<t[i]>> \o Replace(re, replacement, t, i + 1)

\* gulp.replace(new RegExp(licenseRegex, 'g'), '\n\n\n\n')
stripApacheLicense(t) == Replace(licenseRegex, <<NL, NL, NL, NL>>, t, 1)

Block(owner, reserved) ==
  <<OPEN, NL, LICENSE, NL, owner, NL>>
  \o (IF reserved THEN <<RESERVED, NL>> ELSE <<>>)
  \o <<SPDX, NL, CLOSE>>

InitStrip ==
  /\ chunks = SetParents(chunkDecls)
  /\ NoBuild
  /\ NoShims
  /\ NoWrap
  /\ NoLoad
  /\ NoPipeline
  /\ text = <<>>
  /\ pieces = 0
  /\ stripped = <<>>
  /\ phase = "reading"

\* The file goes on with a comment block shaped like a licence header.
ReadBlock ==
  /\ phase = "reading"
  /\ pieces < MaxPieces
  /\ pieces' = pieces + 1
  /\ \E owner \in {GOOGLE, MIT, SOMEONE}, reserved \in BOOLEAN :
       text' = text \o Block(owner, reserved)
  /\ UNCHANGED <<stripped, phase>>
  /\ UNCHANGED <<chunks, buildVars, loadVars, pipeVars, wrapVars, shimVars>>

\* The file goes on with one token.
ReadToken ==
  /\ phase = "reading"
  /\ pieces < MaxPieces
  /\ pieces' = pieces + 1
  /\ \E token \in {NL, CODE, OPEN, RESERVED} : text' = Append(text, token)
  /\ UNCHANGED <<stripped, phase>>
  /\ UNCHANGED <<chunks, buildVars, loadVars, pipeVars, wrapVars, shimVars>>

\* .pipe(stripApacheLicense())
Strip ==
  /\ phase = "reading"
  /\ stripped' = stripApacheLicense(text)
  /\ phase' = "replaced"
  /\ UNCHANGED <<text, pieces>>
  /\ UNCHANGED <<chunks, buildVars, loadVars, pipeVars, wrapVars, shimVars>>

NextStrip == ReadBlock \/ ReadToken \/ Strip

SpecStrip == InitStrip /\ [][NextStrip]_vars

Newlines(t) == Cardinality({i \in DOMAIN t : t[i] = NL})
LineCount(t) == Newlines(t) + 1

\* The comment blocks of t that match the licence pattern.
LicenseBlocks(t) == {i \in DOMAIN t : MatchLen(licenseRegex, t, i) > 0}

\* C6 (as claimed): whatever the text and however many of its comment blocks
\* match the licence pattern, with or without the All rights reserved line,
\* the replacement leaves the number of lines unchanged.
C6_LineCountPreserved ==
  phase = "replaced" => LineCount(stripped) = LineCount(text)

-----------------------------------------------------------------------------
(* The gulp targets *)

\* The values BUILD_DIR is tried with.
BuildDirs == {".", "/", "./", "build", "out"}

MAIN_COMPRESSED == "tests/compile/main_compressed.js"
RELEASE_DIR == "dist"

Places == BuildDirs \cup {RELEASE_DIR, MAIN_COMPRESSED}

\* What rm -rf of a path removes.
Below(dir) ==
  CASE dir = "/" -> Places
    [] dir \in {".", "./"} -> Places \ {"/"}
    [] OTHER -> {dir}

\* gulp.series(...) of each exported target.
Series(target) ==
  CASE target = "minify" -> <<"buildJavaScript", "buildCompiled", "buildShims">>
    [] target = "buildAdvancedCompilationTest" ->
         <<"buildJavaScript", "buildAdvancedCompilationTest">>
    [] target = "onlyBuildAdvancedCompilationTest" -> <<"buildAdvancedCompilationTest">>
    [] target = "tsc" -> <<"buildJavaScript">>
    [] target = "cleanBuildDir" -> <<"cleanBuildDir">>

Targets == {"minify", "buildAdvancedCompilationTest", "onlyBuildAdvancedCompilationTest",
            "tsc", "cleanBuildDir"}

\* The first statement of a task function.
Entry(fn) ==
  CASE fn = "buildJavaScript" -> "tsc"
    [] fn = "buildCompiled" -> "getChunkOptions"
    [] fn = "buildShims" -> "shims"
    [] fn = "buildAdvancedCompilationTest" -> "unlink"
    [] fn = "cleanBuildDir" -> "clean"

Ev(kind, what, code) == [kind |-> kind, what |-> what, code |-> code]

ExitCodes == {0, 1, 2}

InitPipeline ==
  /\ chunks = SetParents(SubSeq(chunkDecls, 1, Min(NumChunks, Len(chunkDecls))))
  /\ NoBuild
  /\ NoShims
  /\ NoWrap
  /\ NoLoad
  /\ NoStrip
  /\ buildDir \in BuildDirs
  /\ fs = {"/", "."}
  /\ fsBefore = {"/", "."}
  /\ task = "none"
  /\ queue = <<>>
  /\ pc = "none"
  /\ proc = "none"
  /\ events = <<>>
  /\ outcome = "idle"
  /\ cleanResult = "none"
  /\ rimrafCalls = <<>>

\* gulp <target>
Invoke ==
  \E target \in Targets :
    /\ outcome # "running"
    /\ task' = target
    /\ queue' = Series(target)
    /\ pc' = Entry(Head(Series(target)))
    /\ proc' = "none"
    /\ events' = <<>>
    /\ outcome' = "running"
    /\ fsBefore' = fs
    /\ cleanResult' = "none"
    /\ rimrafCalls' = <<>>
    /\ UNCHANGED <<buildDir, fs>>
    /\ UNCHANGED <<chunks, buildVars, loadVars, stripVars, wrapVars, shimVars>>

\* The current task function has finished: the series goes on with the next.
Completed(evs) ==
  /\ events' = evs
  /\ queue' = Tail(queue)
  /\ proc' = "none"
  /\ IF Tail(queue) = <<>>
       THEN outcome' = "done" /\ pc' = "none"
       ELSE outcome' = "running" /\ pc' = Entry(Head(Tail(queue)))

\* The current task function has thrown or its stream has failed: the series
\* stops.
Failed(evs) ==
  /\ events' = evs
  /\ outcome' = "failed"
  /\ pc' = "none"
  /\ proc' = "none"
  /\ UNCHANGED queue

\* execSync(...) in buildJavaScript: the process is started...
ExecStart ==
  /\ outcome = "running"
  /\ pc \in {"tsc", "tsick"}
  /\ proc = "none"
  /\ proc' = pc
  /\ events' = Append(events, Ev("start", pc, 0))
  /\ UNCHANGED <<buildDir, fs, fsBefore, task, queue, pc, outcome, cleanResult, rimrafCalls>>
  /\ UNCHANGED <<chunks, buildVars, loadVars, stripVars, wrapVars, shimVars>>

\* As ExecExit, going on to the next statement whatever the exit status.
ExecExit_IgnoreStatus ==
  /\ outcome = "running"
  /\ proc \in {"tsc", "tsick"}
  /\ \E code \in ExitCodes :
       /\ events' = Append(events, Ev("exit", proc, code))
       /\ proc' = "none"
       /\ pc' = IF proc = "tsc" THEN "tsick" ELSE "done"
       /\ fs' = fs \cup {buildDir}
       /\ UNCHANGED <<queue, outcome>>
  /\ UNCHANGED <<buildDir, fsBefore, task, cleanResult, rimrafCalls>>
  /\ UNCHANGED <<chunks, buildVars, loadVars, stripVars, wrapVars, shimVars>>

\* ... and execSync returns when it has exited, throwing unless it exited
\* with 0.  tsc writes into TSC_OUTPUT_DIR, below BUILD_DIR.
ExecExit ==
  /\ outcome = "running"
  /\ proc \in {"tsc", "tsick"}
  /\ \E code \in ExitCodes :
       IF code # 0
         THEN /\ Failed(Append(events, Ev("exit", proc, code)))
              /\ UNCHANGED fs
         ELSE /\ events' = Append(events, Ev("exit", proc, code))
              /\ proc' = "none"
              /\ pc' = IF proc = "tsc" THEN "tsick" ELSE "done"
              /\ fs' = fs \cup {buildDir}
              /\ UNCHANGED <<queue, outcome>>
  /\ UNCHANGED <<buildDir, fsBefore, task, cleanResult, rimrafCalls>>
  /\ UNCHANGED <<chunks, buildVars, loadVars, stripVars, wrapVars, shimVars>>

\* done();
CallDone ==
  /\ outcome = "running"
  /\ pc = "done"
  /\ Completed(Append(events, Ev("done", "buildJavaScript", 0)))
  /\ UNCHANGED <<buildDir, fs, fsBefore, task, cleanResult, rimrafCalls>>
  /\ UNCHANGED <<chunks, buildVars, loadVars, stripVars, wrapVars, shimVars>>

\* const chunkOptions = getChunkOptions();
PipelineChunkOptions ==
  /\ outcome = "running"
  /\ pc = "getChunkOptions"
  /\ manifest' = getChunkOptions(chunks, tree)
  /\ manifestTree' = tree
  /\ pc' = "closure"
  /\ UNCHANGED <<buildDir, fs, fsBefore, task, queue, proc, events, outcome, cleanResult,
                 rimrafCalls>>
  /\ UNCHANGED <<chunks, tree, loadVars, stripVars, wrapVars, shimVars>>

\* As Unlink, with a catch block that rethrows all but ENOENT.
Unlink_Rethrow ==
  /\ outcome = "running"
  /\ pc = "unlink"
  /\ \E result \in IF MAIN_COMPRESSED \in fs THEN {"ok", "EPERM"} ELSE {"ENOENT", "EACCES"} :
       /\ fs' = IF result = "ok" THEN fs \ {MAIN_COMPRESSED} ELSE fs
       /\ IF result \in {"ok", "ENOENT"}
            THEN /\ events' = Append(events, Ev("unlink", result, 0))
                 /\ pc' = "closure"
                 /\ UNCHANGED <<queue, proc, outcome>>
            ELSE Failed(Append(events, Ev("unlink", result, 0)))
  /\ UNCHANGED <<buildDir, fsBefore, task, cleanResult, rimrafCalls>>
  /\ UNCHANGED <<chunks, buildVars, loadVars, stripVars, wrapVars, shimVars>>

\* try { fs.unlinkSync('./tests/compile/main_compressed.js'); } catch (_e) {}
Unlink ==
  /\ outcome = "running"
  /\ pc = "unlink"
  /\ \E result \in IF MAIN_COMPRESSED \in fs THEN {"ok", "EPERM"} ELSE {"ENOENT", "EACCES"} :
       /\ events' = Append(events, Ev("unlink", result, 0))
       /\ fs' = IF result = "ok" THEN fs \ {MAIN_COMPRESSED} ELSE fs
  /\ pc' = "closure"
  /\ UNCHANGED <<buildDir, fsBefore, task, queue, proc, outcome, cleanResult, rimrafCalls>>
  /\ UNCHANGED <<chunks, buildVars, loadVars, stripVars, wrapVars, shimVars>>

\* gulp.src(...)...pipe(compile(options)): Closure Compiler is started...
CompileStart ==
  /\ outcome = "running"
  /\ pc = "closure"
  /\ proc = "none"
  /\ proc' = "closure"
  /\ events' = Append(events, Ev("start", "closure", 0))
  /\ UNCHANGED <<buildDir, fs, fsBefore, task, queue, pc, outcome, cleanResult, rimrafCalls>>
  /\ UNCHANGED <<chunks, buildVars, loadVars, stripVars, wrapVars, shimVars>>

\* ... and when it has exited the stream ends, with gulp.dest having written
\* its output, or fails.
CompileExit ==
  /\ outcome = "running"
  /\ proc = "closure"
  /\ \E code \in ExitCodes :
       IF code # 0
         THEN /\ Failed(Append(events, Ev("exit", proc, code)))
              /\ UNCHANGED fs
         ELSE /\ Completed(Append(events, Ev("exit", proc, code)))
              /\ fs' = fs \cup {IF Head(queue) = "buildCompiled" THEN RELEASE_DIR
                                ELSE MAIN_COMPRESSED}
  /\ UNCHANGED <<buildDir, fsBefore, task, cleanResult, rimrafCalls>>
  /\ UNCHANGED <<chunks, buildVars, loadVars, stripVars, wrapVars, shimVars>>

\* buildShims writes package.json and the shims into BUILD_DIR.
BuildShims ==
  /\ outcome = "running"
  /\ pc = "shims"
  /\ fs' = fs \cup {buildDir}
  /\ Completed(Append(events, Ev("step", "buildShims", 0)))
  /\ UNCHANGED <<buildDir, fsBefore, task, cleanResult, rimrafCalls>>
  /\ UNCHANGED <<chunks, buildVars, loadVars, stripVars, wrapVars, shimVars>>

\* As Refuses, with the check for "." only.
Refuses_OnlyDot(dir) == dir = "."

\* if (BUILD_DIR === '.' || BUILD_DIR === '/')
Refuses(dir) == dir = "." \/ dir = "/"

\* cleanBuildDir
CleanBuildDir ==
  /\ outcome = "running"
  /\ pc = "clean"
  /\ IF Refuses(buildDir)
       THEN /\ cleanResult' = "rejected"
            /\ Failed(Append(events, Ev("reject", buildDir, 0)))
            /\ UNCHANGED <<fs, rimrafCalls>>
       ELSE /\ cleanResult' = "resolved"
            /\ rimrafCalls' = Append(rimrafCalls, buildDir)
            /\ fs' = fs \ Below(buildDir)
            /\ Completed(Append(events, Ev("rimraf", buildDir, 0)))
  /\ UNCHANGED <<buildDir, fsBefore, task>>
  /\ UNCHANGED <<chunks, buildVars, loadVars, stripVars, wrapVars, shimVars>>

NextPipeline ==
  \/ Invoke \/ ExecStart \/ ExecExit \/ CallDone \/ PipelineChunkOptions
  \/ Unlink \/ CompileStart \/ CompileExit \/ BuildShims \/ CleanBuildDir

SpecPipeline == InitPipeline /\ [][NextPipeline]_vars

\* C7: cleanBuildDir rejects, without calling rimraf and leaving the disk as
\* it was, when BUILD_DIR is "." or "/"; for any other BUILD_DIR it calls
\* rimraf once, with BUILD_DIR.
C7_CleanRefusal ==
  (task = "cleanBuildDir" /\ outcome # "running") =>
    IF buildDir = "." \/ buildDir = "/"
      THEN cleanResult = "rejected" /\ rimrafCalls = <<>> /\ fs = fsBefore
      ELSE cleanResult = "resolved" /\ rimrafCalls = <<buildDir>>

C7_Witness ==
  /\ task = "cleanBuildDir"
  /\ buildDir = "/"
  /\ cleanResult = "rejected"
  /\ fs = fsBefore
  /\ RELEASE_DIR \in fs

\* The place of an event in the series of a target.
Rank(e) ==
  CASE e.kind = "unlink" -> 4
    [] e.kind = "done" -> 3
    [] e.what = "tsc" -> 1
    [] e.what = "tsick" -> 2
    [] e.what = "closure" -> 5
    [] OTHER -> 6

\* C9: in the minify and buildAdvancedCompilationTest series every external
\* process has exited before the next step starts; after a process has exited
\* with a status other than 0 nothing more is done (after a failed tsc, tsick
\* is not run and done is not called) and the run has failed; the steps are
\* taken in the order of the series and none is started twice.
C9_FailFastNoRetry ==
  task \in {"minify", "buildAdvancedCompilationTest"} =>
    /\ \A i \in DOMAIN events :
         /\ events[i].kind = "start" =>
              IF i = Len(events) THEN proc = events[i].what /\ outcome = "running"
              ELSE events[i + 1].kind = "exit" /\ events[i + 1].what = events[i].what
         /\ (events[i].kind = "exit" /\ events[i].code # 0) =>
              i = Len(events) /\ outcome = "failed"
         /\ events[i].kind \in {"done", "step"} =>
              i > 1 /\ events[i - 1].kind = "exit" /\ events[i - 1].code = 0
    /\ \A i, j \in DOMAIN events :
         i < j => /\ Rank(events[i]) <= Rank(events[j])
                  /\ events[i].kind = events[j].kind => events[i].what # events[j].what
    /\ (proc # "none") => (events # <<>> /\ events[Len(events)].kind = "start")

C9_Witness ==
  /\ task = "minify"
  /\ outcome = "failed"
  /\ events = <<Ev("start", "tsc", 0), Ev("exit", "tsc", 2)>>

\* C10 (as amended): the deletion of the stale main_compressed.js ignores
\* every failure, that the file did not exist and any other alike: whatever
\* unlinkSync threw, the run goes on and Closure Compiler is started next.
C10_EveryUnlinkFailureIgnored ==
  \A i \in DOMAIN events :
    events[i].kind = "unlink" =>
      IF i = Len(events) THEN outcome = "running" /\ pc = "closure"
      ELSE events[i + 1] = Ev("start", "closure", 0)

C10_Witness ==
  \E i \in DOMAIN events :
    /\ events[i] = Ev("unlink", "EPERM", 0)
    /\ i < Len(events)
    /\ events[i + 1] = Ev("start", "closure", 0)
    /\ MAIN_COMPRESSED \in fs

\* C10 (as claimed): a failure of the deletion other than that the file did
\* not exist ends the run before compilation starts.
C10_OnlyMissingFileIgnored ==
  \A i \in DOMAIN events :
    (events[i].kind = "unlink" /\ events[i].what \notin {"ok", "ENOENT"}) =>
      /\ \A j \in DOMAIN events : j > i => events[j].kind # "start"
      /\ outcome = "failed"

-----------------------------------------------------------------------------
(* The chunk list under the build tasks *)

\* The parent graph is a star: the first chunk has no parent, and the parent
\* of every other chunk is the first chunk, which has none.
Star ==
  /\ chunks[1].parent = <<>>
  /\ \A i \in 2..Len(chunks) :
       /\ Len(chunks[i].parent) = 1
       /\ chunks[i].parent[1] = chunks[1]
       /\ chunks[i].parent[1].parent = <<>>

-----------------------------------------------------------------------------
(* chunkWrapper as a function of the chunk descriptor *)

\* Chunk descriptors that differ field by field.  A parent is one of three
\* root chunks, two of which have the same name.
WrapRoots ==
  { WithParent(chunkDecls[1], <<>>),
    WithParent(scenarioDecls[1], <<>>),
    WithParent([chunkDecls[1] EXCEPT !.scriptExport = <<"R">>], <<>>) }

WrapChunks ==
  { [name |-> n, files |-> f, entry |-> e, scriptExport |-> x,
     scriptNamedExports |-> ne, parent |-> par] :
      n \in {"blocks", "javascript"},
      f \in {OneGlob(Deep(<<"blocks">>)), Globs(<<Deep(<<"generators">>)>>)},
      e \in {<<"blocks", "blocks", ".js">>, <<"generators", "javascript", ".js">>},
      x \in {<<"javascript">>, <<"Blockly", "libraryBlocks">>},
      ne \in {<<>>, <<[location |-> <<"Blockly", "JavaScript">>,
                       namedExport |-> "javascriptGenerator"]>>},
      par \in {<<>>} \cup {<<r>> : r \in WrapRoots} }

InitWrap ==
  /\ chunks = SetParents(SubSeq(chunkDecls, 1, Min(NumChunks, Len(chunkDecls))))
  /\ NoBuild
  /\ NoLoad
  /\ NoStrip
  /\ NoPipeline
  /\ NoShims
  /\ chunkA \in WrapChunks
  /\ chunkB \in WrapChunks
  /\ wrapperA = <<>>
  /\ wrapperB = <<>>
  /\ wrapperAgain = <<>>

WrapA ==
  /\ wrapperA = <<>>
  /\ wrapperA' = <<chunkWrapper(chunkA)>>
  /\ UNCHANGED <<chunkA, chunkB, wrapperB, wrapperAgain>>
  /\ UNCHANGED <<chunks, buildVars, loadVars, stripVars, pipeVars, shimVars>>

WrapB ==
  /\ wrapperB = <<>>
  /\ wrapperB' = <<chunkWrapper(chunkB)>>
  /\ UNCHANGED <<chunkA, chunkB, wrapperA, wrapperAgain>>
  /\ UNCHANGED <<chunks, buildVars, loadVars, stripVars, pipeVars, shimVars>>

WrapAgain ==
  /\ wrapperA # <<>>
  /\ wrapperAgain = <<>>
  /\ wrapperAgain' = <<chunkWrapper(chunkA)>>
  /\ UNCHANGED <<chunkA, chunkB, wrapperA, wrapperB>>
  /\ UNCHANGED <<chunks, buildVars, loadVars, stripVars, pipeVars, shimVars>>

NextWrap == WrapA \/ WrapB \/ WrapAgain

SpecWrap == InitWrap /\ [][NextWrap]_vars

\* chunk.parent.name and chunk.parent.scriptExport, <<>> without a parent.
ParentName(chunk) == IF HasParent(chunk) THEN <<chunk.parent[1].name>> ELSE <<>>
ParentExport(chunk) == IF HasParent(chunk) THEN <<chunk.parent[1].scriptExport>> ELSE <<>>

\* The four values of the claim.
SameClaimed(a, b) ==
  /\ a.name = b.name
  /\ ParentName(a) = ParentName(b)
  /\ a.scriptExport = b.scriptExport
  /\ a.scriptNamedExports = b.scriptNamedExports

\* The values chunkWrapper reads.
SameRead(a, b) ==
  /\ ParentName(a) = ParentName(b)
  /\ ParentExport(a) = ParentExport(b)
  /\ a.scriptExport = b.scriptExport
  /\ a.scriptNamedExports = b.scriptNamedExports
  /\ a.entry = b.entry

BothWrapped == wrapperA # <<>> /\ wrapperB # <<>>

\* C12, as amended: the wrapper is a function of the parent's name, the
\* parent's export binding, the chunk's export binding, its named export
\* bindings and its entry path.  Two descriptors that agree on these five get
\* the same wrapper whatever their names and file globs are; two that agree on
\* the four values of the claim but whose entries name different module
\* objects get different wrappers; a second call on the same descriptor
\* returns what the first returned.
C12_PureInWhatItReads ==
  /\ (BothWrapped /\ SameRead(chunkA, chunkB)) => wrapperA = wrapperB
  /\ (BothWrapped /\ SameClaimed(chunkA, chunkB)
        /\ modulePath(chunkA) # modulePath(chunkB)) => wrapperA # wrapperB
  /\ wrapperAgain # <<>> => wrapperAgain = wrapperA

C12_Witness ==
  /\ BothWrapped
  /\ wrapperAgain # <<>>
  /\ SameRead(chunkA, chunkB)
  /\ chunkA.name # chunkB.name
  /\ chunkA.files # chunkB.files
  /\ HasParent(chunkA)
  /\ chunkA.scriptNamedExports # <<>>
  /\ wrapperA = wrapperB

\* C12, as claimed: two descriptors that agree on name, parent name, export
\* binding and named export bindings get the same wrapper.
C12_AsClaimed ==
  (BothWrapped /\ SameClaimed(chunkA, chunkB)) => wrapperA = wrapperB

-----------------------------------------------------------------------------
(* buildShims: one task per chunk, joined by Promise.all *)

\* A path in BUILD_DIR is the directory and the file name.
TMP_PACKAGE_JSON == <<buildDir, "package.json">>
shimPath(chunk) == <<buildDir, chunk.name \o ".loader.mjs">>

\* What a task writes to its shim, without the names of the entry's exports.
ShimText(chunk) ==
  [parentImport |-> IF HasParent(chunk)
                    THEN <<".", chunk.parent[1].name \o ".loader.mjs">>
                    ELSE <<>>,
   entryPath |-> PathJoin(TSC_OUTPUT_DIR_POSIX, chunk.entry),
   scriptPath |-> <<RELEASE_DIR, chunk.name \o COMPILED_SUFFIX \o ".js">>,
   scriptExport |-> chunk.scriptExport]

\* buildShims itself is writer 0 and the task of chunks[i] is writer i.
Write(path, who, what) == [path |-> path, who |-> who, text |-> what]

InitShims ==
  /\ chunks \in ChunkLists
  /\ NoBuild
  /\ NoLoad
  /\ NoStrip
  /\ NoPipeline
  /\ NoWrap
  /\ shimPc = "idle"
  /\ taskPc = [i \in 1..Len(chunks) |-> "none"]
  /\ shimFs \in {{}, {shimPath(chunks[1])}}
  /\ shimWrites = <<>>

\* buildShims() is called: it starts writing package.json and waits.
ShimsCall ==
  /\ shimPc = "idle"
  /\ shimPc' = "writingPkg"
  /\ UNCHANGED <<taskPc, shimFs, shimWrites>>
  /\ UNCHANGED <<chunks, buildVars, loadVars, stripVars, pipeVars, wrapVars>>

\* The write of package.json ends.  When it failed buildShims rejects; when
\* not, chunks.map runs every task up to its import() and buildShims waits
\* for Promise.all.
PkgWritten(ok) ==
  /\ shimPc = "writingPkg"
  /\ IF ok
       THEN /\ shimFs' = shimFs \cup {TMP_PACKAGE_JSON}
            /\ shimWrites' = Append(shimWrites, Write(TMP_PACKAGE_JSON, 0, [type |-> "module"]))
            /\ taskPc' = [i \in 1..Len(chunks) |-> "import"]
            /\ shimPc' = "awaitAll"
       ELSE /\ shimPc' = "rejected"
            /\ UNCHANGED <<taskPc, shimFs, shimWrites>>
  /\ UNCHANGED <<chunks, buildVars, loadVars, stripVars, pipeVars, wrapVars>>

\* Promise.all rejects as soon as one task has failed, and buildShims with
\* it: the rm is not reached.
Rejects(at) == IF at = "awaitAll" THEN "rejected" ELSE at

\* Promise.all resolves when the last task is done, and buildShims goes on to
\* remove package.json.
Joins(at, tasks) ==
  IF at = "awaitAll" /\ \A j \in DOMAIN tasks : tasks[j] = "done"
  THEN "removing" ELSE at

\* The import of the entry of chunks[i] ends; the task then starts writing
\* its shim.
ShimImport(i, ok) ==
  /\ taskPc[i] = "import"
  /\ IF ok
       THEN /\ taskPc' = [taskPc EXCEPT ![i] = "write"]
            /\ UNCHANGED shimPc
       ELSE /\ taskPc' = [taskPc EXCEPT ![i] = "failed"]
            /\ shimPc' = Rejects(shimPc)
  /\ UNCHANGED <<shimFs, shimWrites>>
  /\ UNCHANGED <<chunks, buildVars, loadVars, stripVars, pipeVars, wrapVars>>

\* As ShimWrite, with the task of a child waiting for its parent's shim.
ShimWrite_AfterParent(i, ok) ==
  /\ taskPc[i] = "write"
  /\ HasParent(chunks[i]) => taskPc[1] = "done"
  /\ IF ok
       THEN /\ shimFs' = shimFs \cup {shimPath(chunks[i])}
            /\ shimWrites' = Append(shimWrites,
                 Write(shimPath(chunks[i]), i, ShimText(chunks[i])))
            /\ taskPc' = [taskPc EXCEPT ![i] = "done"]
            /\ shimPc' = Joins(shimPc, taskPc')
       ELSE /\ taskPc' = [taskPc EXCEPT ![i] = "failed"]
            /\ shimPc' = Rejects(shimPc)
            /\ UNCHANGED <<shimFs, shimWrites>>
  /\ UNCHANGED <<chunks, buildVars, loadVars, stripVars, pipeVars, wrapVars>>

\* The write of the shim of chunks[i] ends.
ShimWrite(i, ok) ==
  /\ taskPc[i] = "write"
  /\ IF ok
       THEN /\ shimFs' = shimFs \cup {shimPath(chunks[i])}
            /\ shimWrites' = Append(shimWrites,
                 Write(shimPath(chunks[i]), i, ShimText(chunks[i])))
            /\ taskPc' = [taskPc EXCEPT ![i] = "done"]
            /\ shimPc' = Joins(shimPc, taskPc')
       ELSE /\ taskPc' = [taskPc EXCEPT ![i] = "failed"]
            /\ shimPc' = Rejects(shimPc)
            /\ UNCHANGED <<shimFs, shimWrites>>
  /\ UNCHANGED <<chunks, buildVars, loadVars, stripVars, pipeVars, wrapVars>>

\* The removal of package.json ends, and buildShims with it.
PkgRemoved(ok) ==
  /\ shimPc = "removing"
  /\ IF ok
       THEN /\ shimFs' = shimFs \ {TMP_PACKAGE_JSON}
            /\ shimPc' = "resolved"
       ELSE /\ shimPc' = "rejected"
            /\ UNCHANGED shimFs
  /\ UNCHANGED <<taskPc, shimWrites>>
  /\ UNCHANGED <<chunks, buildVars, loadVars, stripVars, pipeVars, wrapVars>>

NextShims ==
  \/ ShimsCall
  \/ \E ok \in BOOLEAN : PkgWritten(ok)
  \/ \E i \in 1..Len(chunks), ok \in BOOLEAN : ShimImport(i, ok)
  \/ \E i \in 1..Len(chunks), ok \in BOOLEAN : ShimWrite(i, ok)
  \/ \E ok \in BOOLEAN : PkgRemoved(ok)

SpecShims == InitShims /\ [][NextShims]_vars

Tasks == 1..Len(chunks)

\* The writeFile calls that have finished, as a set.
Written == { shimWrites[k] : k \in 1..Len(shimWrites) }

PkgWasWritten == \E w \in Written : w.who = 0 /\ w.path = TMP_PACKAGE_JSON
ShimWasWritten(i) == \E w \in Written : w.who = i /\ w.path = shimPath(chunks[i])
PkgWasRemoved == PkgWasWritten /\ TMP_PACKAGE_JSON \notin shimFs

DistinctNames == \A i, j \in Tasks : i # j => chunks[i].name # chunks[j].name

\* C13: in every run of buildShims, however the tasks of the chunks are
\* interleaved: (1) a task has started its import only after package.json was
\* written, and the file is there while an import is in progress; (2)
\* package.json is being removed or has been removed, or buildShims has
\* resolved, only when the shim of every chunk has been written; (3) a task
\* that is waiting for its import or its write can always take its next step,
\* whatever the other tasks have done; (4) the chunk names being distinct, no
\* path has been written by two writers.
C13_ShimsJoinedIndependent ==
  /\ \A i \in DOMAIN taskPc :
       /\ taskPc[i] # "none" => PkgWasWritten
       /\ taskPc[i] = "import" => TMP_PACKAGE_JSON \in shimFs
  /\ (shimPc \in {"removing", "resolved"} \/ PkgWasRemoved)
       => \A i \in Tasks : ShimWasWritten(i) /\ shimPath(chunks[i]) \in shimFs
  /\ shimPc = "resolved" => PkgWasRemoved
  /\ \A i \in DOMAIN taskPc :
       /\ taskPc[i] = "import" => ENABLED (\E ok \in BOOLEAN : ShimImport(i, ok))
       /\ taskPc[i] = "write" => ENABLED (\E ok \in BOOLEAN : ShimWrite(i, ok))
  /\ DistinctNames =>
       \A v, w \in Written : v.path = w.path => v.who = w.who

\* buildShims has resolved, and the shim of the last chunk was written first
\* and that of the first chunk last.
C13_Witness ==
  /\ shimPc = "resolved"
  /\ Len(chunks) >= 3
  /\ DistinctNames
  /\ PkgWasRemoved
  /\ Len(shimWrites) = Len(chunks) + 1
  /\ shimWrites[2].who = Len(chunks)
  /\ shimWrites[Len(shimWrites)].who = 1
  /\ \A i \in Tasks : ShimWasWritten(i) /\ HasParent(chunks[i]) = (i # 1)

====
